---------------------------- MODULE Spec2Model ----------------------------
(***************************************************************************)
(* Model of bgclean (app.py): the SKU catalog loader, the preview scaling, *)
(* and the Streamlit session workflow (upload / SKU load / background      *)
(* removal).                                                               *)
(*                                                                         *)
(* Representation of Python values.  Every value is a TLA+ sequence, so    *)
(* that any two values can be compared:                                    *)
(*   - a str is the sequence of its characters; a URL is written as one    *)
(*     chunk for its non-blank characters, with " " for each blank;        *)
(*   - None and NaN are the one-element sequences None and NaN;            *)
(*   - bytes are <<>> (empty) or <<format, content, width, height>>;       *)
(*   - a PIL image is <<"RGBA", content, width, height>>;                  *)
(*   - an UploadedFile is <<id, bytes>>, its id <<"file", n>>.             *)
(***************************************************************************)
EXTENDS Integers, Sequences, FiniteSets, TLC

None == <<"None">>
NaN == <<"NaN">>

(***************************************************************************)
(* Constants of app.py.                                                    *)
(***************************************************************************)
MAX_IMAGE_HEIGHT == 550
SUPPORTED_IMAGE_TYPES == {"PNG", "JPEG", "WEBP"}
S_sku == <<"s", "k", "u">>
S_image_url == <<"i", "m", "a", "g", "e", "_", "u", "r", "l">>
S_background_image_url ==
    <<"b", "a", "c", "k", "g", "r", "o", "u", "n", "d", "_", "i", "m", "a", "g", "e", "_", "u", "r", "l">>
DEFAULT_EXPECTED_COLUMNS == <<S_sku, S_image_url, S_background_image_url>>
FALLBACK_IMAGE_URL_COLUMN == <<"b", "i", "l", "d">>
FALLBACK_BACKGROUND_URL_COLUMN ==
    <<"h", "i", "n", "t", "e", "r", "g", "r", "u", "n", "d", "b", "i", "l", "d">>
EXPORT_FORMAT_PNG == "PNG (transparent background)"
EXPORT_FORMAT_JPEG == "JPEG (white background)"

(***************************************************************************)
(* str methods.                                                            *)
(***************************************************************************)
IsSpace(c) == c \in {" ", "\t"}

RECURSIVE lstrip(_)
lstrip(s) == IF s # <<>> /\ IsSpace(Head(s)) THEN lstrip(Tail(s)) ELSE s

RECURSIVE rstrip(_)
rstrip(s) ==
    IF s # <<>> /\ IsSpace(s[Len(s)]) THEN rstrip(SubSeq(s, 1, Len(s) - 1)) ELSE s

strip(s) == rstrip(lstrip(s))

LowerChar(c) ==
    CASE c = "S" -> "s" [] c = "K" -> "k" [] c = "U" -> "u"
      [] c = "B" -> "b" [] c = "I" -> "i" [] c = "L" -> "l" [] c = "D" -> "d"
      [] c = "H" -> "h" [] c = "A" -> "a" [] c = "C" -> "c" [] c = "P" -> "p"
      [] OTHER -> c

lower(s) == [i \in DOMAIN s |-> LowerChar(s[i])]

\* str(x) / astype(str): a missing value becomes the text "nan" ("None" for None)
str(x) ==
    IF x = NaN THEN <<"n", "a", "n">>
    ELSE IF x = None THEN <<"N", "o", "n", "e">>
    ELSE x

isna(x) == x = NaN \/ x = None


(***************************************************************************)
(* pandas: a DataFrame is [columns, rows]; column labels may repeat, and   *)
(* every operation that takes a label acts on all the columns carrying it. *)
(***************************************************************************)
DataFrame(columns, rows) == [columns |-> columns, rows |-> rows]

\* pd.DataFrame(columns=DEFAULT_EXPECTED_COLUMNS)
EmptyExpectedFrame == DataFrame(DEFAULT_EXPECTED_COLUMNS, <<>>)

\* the positions of the columns labelled c, in column order
Positions(df, c) ==
    SelectSeq([i \in 1..Len(df.columns) |-> i], LAMBDA i : df.columns[i] = c)

\* c in df.columns
has_column(df, c) == Positions(df, c) # <<>>

\* df.empty
df_empty(df) == df.rows = <<>> \/ df.columns = <<>>

\* df.columns = [str(col).strip().lower() for col in df.columns]
clean_columns(df) ==
    [df EXCEPT !.columns = [i \in DOMAIN @ |-> lower(strip(str(@[i])))]]

\* df["sku"] = df["sku"].astype(str).str.strip(), for a single sku column
strip_sku_column(df) ==
    LET j == Positions(df, S_sku)[1]
    IN  [df EXCEPT !.rows =
            [r \in DOMAIN @ |-> [@[r] EXCEPT ![j] = strip(str(@))]]]

\* df.rename(columns={old: new}, inplace=True)
rename(df, old, new) ==
    [df EXCEPT !.columns = [i \in DOMAIN @ |-> IF @[i] = old THEN new ELSE @[i]]]

\* df[col] = None, for a column that is not in df
add_none_column(df, col) ==
    DataFrame(Append(df.columns, col),
              [r \in DOMAIN df.rows |-> Append(df.rows[r], None)])

\* for col in DEFAULT_EXPECTED_COLUMNS: if col not in df.columns: df[col] = None
RECURSIVE add_missing_columns(_, _)
add_missing_columns(df, cols) ==
    IF cols = <<>> THEN df
    ELSE add_missing_columns(
             IF has_column(df, Head(cols)) THEN df
             ELSE add_none_column(df, Head(cols)),
             Tail(cols))

\* df[cols]: every column carrying one of the labels, in the order of cols
RECURSIVE select_positions(_, _)
select_positions(df, cols) ==
    IF cols = <<>> THEN <<>>
    ELSE Positions(df, Head(cols)) \o select_positions(df, Tail(cols))

select_columns(df, cols) ==
    LET pos == select_positions(df, cols)
    IN  DataFrame([k \in 1..Len(pos) |-> df.columns[pos[k]]],
                  [r \in DOMAIN df.rows |->
                      [k \in 1..Len(pos) |-> df.rows[r][pos[k]]]])

(***************************************************************************)
(* load_sku_data.  Its input is what pd.read_csv does with the path: it    *)
(* raises FileNotFoundError or another exception, or returns a frame.      *)
(* The try body returns [raised, df, errors]: raised names the exception   *)
(* that left the body ("" when it returned).                               *)
(***************************************************************************)
Returned(df, errors) == [raised |-> "", df |-> df, errors |-> errors]
Raised(exc) == [raised |-> exc, df |-> EmptyExpectedFrame, errors |-> <<>>]

rename_fallbacks(df) ==
    LET d1 == IF ~has_column(df, S_image_url)
                 /\ has_column(df, FALLBACK_IMAGE_URL_COLUMN)
              THEN rename(df, FALLBACK_IMAGE_URL_COLUMN, S_image_url)
              ELSE df
    IN  IF ~has_column(d1, S_background_image_url)
           /\ has_column(d1, FALLBACK_BACKGROUND_URL_COLUMN)
        THEN rename(d1, FALLBACK_BACKGROUND_URL_COLUMN, S_background_image_url)
        ELSE d1

load_sku_data_try(read_csv) ==
    IF read_csv.raises # "" THEN Raised(read_csv.raises)
    ELSE LET df == clean_columns(read_csv.df)
         IN  IF ~has_column(df, S_sku)
             THEN Returned(EmptyExpectedFrame, <<"error: must contain a 'sku' column">>)
             \* df["sku"] is a DataFrame when the label repeats: it has no .str
             ELSE IF Len(Positions(df, S_sku)) > 1 THEN Raised("AttributeError")
             ELSE Returned(
                      select_columns(
                          add_missing_columns(rename_fallbacks(strip_sku_column(df)),
                                              DEFAULT_EXPECTED_COLUMNS),
                          DEFAULT_EXPECTED_COLUMNS),
                      <<>>)

\* the except clauses as a plausible slip: only FileNotFoundError is caught
load_sku_data_except_file_only(t) ==
    IF t.raised = "" THEN t
    ELSE IF t.raised = "FileNotFoundError"
    THEN Returned(EmptyExpectedFrame, <<"error: file was not found">>)
    ELSE t

load_sku_data_except(t) ==
    IF t.raised = "" THEN t
    ELSE IF t.raised = "FileNotFoundError"
    THEN Returned(EmptyExpectedFrame, <<"error: file was not found">>)
    ELSE Returned(EmptyExpectedFrame, <<"error: occurred while loading">>)

load_sku_data(read_csv) == load_sku_data_except(load_sku_data_try(read_csv))

(***************************************************************************)
(* PIL.                                                                    *)
(***************************************************************************)
\* an exception raised in place of a value
Raise(exc) == <<exc>>
is_raise(x) == Len(x) = 1 /\ x # None

\* Image.open(io.BytesIO(image_bytes)).convert("RGBA"): the payload must be
\* one of the image formats PIL reads
Image_open_RGBA(image_bytes) ==
    IF Len(image_bytes) = 4 /\ image_bytes[1] \in SUPPORTED_IMAGE_TYPES
    THEN <<"RGBA", image_bytes[2], image_bytes[3], image_bytes[4]>>
    ELSE Raise("UnidentifiedImageError")

image_width(image) == image[3]
image_height(image) == image[4]

\* Image.resize(size): PIL refuses a size with a side below 1
\* ("height and width must be > 0")
Image_resize(image, w, h) ==
    IF w < 1 \/ h < 1 THEN Raise("ValueError")
    ELSE <<image[1], image[2], w, h>>

\* int(width * max_height / height): the operands are non-negative and far
\* below 2^53, where the float quotient truncates to the integer quotient
resize_image(image, max_height) ==
    IF image_height(image) > max_height
    THEN Image_resize(image,
                      (image_width(image) * max_height) \div image_height(image),
                      max_height)
    ELSE image

(***************************************************************************)
(* Bounds and input domains.                                               *)
(***************************************************************************)
MaxColumns == 3
MaxRows == 2
MaxWidth == 4
Margin == 3
MaxUploads == 2

RawColumnNames ==
    { S_sku, S_image_url, S_background_image_url,
      FALLBACK_IMAGE_URL_COLUMN, FALLBACK_BACKGROUND_URL_COLUMN,
      <<" ", "S", "K", "U", " ">>, <<"B", "i", "l", "d">>,
      <<"p", "r", "e", "i", "s">> }

\* the headers read_csv can return: its labels are pairwise distinct
Headers ==
    { h \in UNION { [1..n -> RawColumnNames] : n \in 0..MaxColumns } :
        \A i, j \in DOMAIN h : h[i] = h[j] => i = j }

Digit(n) == <<"0", "1", "2", "3", "4", "5", "6", "7", "8", "9">>[(n % 10) + 1]

\* the cell of a row of kind k in column j: padded text, plain text, or a
\* missing / blank cell
RowKinds == 1..3
Cell(k, j) ==
    CASE k = 1 -> <<" ", Digit(k), Digit(j), " ">>
      [] k = 2 -> <<Digit(k), Digit(j)>>
      [] OTHER -> IF j % 2 = 1 THEN NaN ELSE <<" ">>

Frames ==
    { DataFrame(h, [r \in DOMAIN ks |-> [j \in DOMAIN h |-> Cell(ks[r], j)]]) :
        h \in Headers,
        ks \in UNION { [1..n -> RowKinds] : n \in 0..MaxRows } }

ReadCsv(raises, df) == [raises |-> raises, df |-> df]

ReadCsvOutcomes ==
    { ReadCsv(e, DataFrame(<<>>, <<>>)) :
        e \in {"FileNotFoundError", "ParserError", "UnicodeDecodeError"} }
    \cup { ReadCsv("", df) : df \in Frames }

Widths == 1..MaxWidth
Heights ==
    (1..Margin) \cup ((MAX_IMAGE_HEIGHT - Margin)..(MAX_IMAGE_HEIGHT + Margin))
    \cup { 2 * MAX_IMAGE_HEIGHT, 3 * MAX_IMAGE_HEIGHT + 1 }
MaxHeights == {MAX_IMAGE_HEIGHT} \cup (1..Margin)

(***************************************************************************)
(* The script run.  st threads what a run of main() reads and writes:      *)
(*   ss              st.session_state (the keys of initialize_session_state)*)
(*   messages        the st.error / st.warning / st.info / st.success calls *)
(*   calls           the session mutators called, in order                  *)
(*   exception       the exception that ended the run ("" when none did)    *)
(*   processed_image the local processed_image of the run                   *)
(*   export_format_choice the value of the export format radio              *)
(*   links           the download links the run rendered, in order          *)
(***************************************************************************)
truthy(x) == x # None /\ x # <<>>

initialize_session_state ==
    [ current_image |-> None, current_image_bytes |-> None, current_sku |-> None,
      sku_input_text |-> <<>>, last_uploaded_file_id |-> None ]

RunStart(ss) ==
    [ ss |-> ss, messages |-> <<>>, calls |-> <<>>, exception |-> "",
      processed_image |-> None, export_format_choice |-> EXPORT_FORMAT_PNG,
      links |-> <<>> ]

emit(st, message) == [st EXCEPT !.messages = Append(@, message)]

\* lines 204-208 as a plausible slip: the bytes are not replaced
update_session_data_keeps_bytes(st, image, image_bytes, sku) ==
    [st EXCEPT !.ss = [@ EXCEPT !.current_image = image,
                                !.current_sku = sku,
                                !.sku_input_text = IF truthy(sku) THEN sku ELSE <<>>],
               !.calls = Append(@, "update_session_data")]

update_session_data(st, image, image_bytes, sku) ==
    [st EXCEPT !.ss = [@ EXCEPT !.current_image = image,
                                !.current_image_bytes = image_bytes,
                                !.current_sku = sku,
                                !.sku_input_text = IF truthy(sku) THEN sku ELSE <<>>],
               !.calls = Append(@, "update_session_data")]

\* lines 210-213 as a plausible slip: the SKU is not cleared
clear_session_image_data_keeps_sku(st) ==
    [st EXCEPT !.ss = [@ EXCEPT !.current_image = None,
                                !.current_image_bytes = None],
               !.calls = Append(@, "clear_session_image_data")]

clear_session_image_data(st) ==
    [st EXCEPT !.ss = [@ EXCEPT !.current_image = None,
                                !.current_image_bytes = None,
                                !.current_sku = None],
               !.calls = Append(@, "clear_session_image_data")]

\* what a loader returns: (image, image_bytes), its messages, and the
\* exception it let through
Load(image, image_bytes, messages, exception) ==
    [ image |-> image, image_bytes |-> image_bytes, messages |-> messages,
      exception |-> exception ]

load_image_from_upload(uploaded_file) ==
    IF uploaded_file = None THEN Load(None, None, <<>>, "")
    ELSE LET image_bytes == uploaded_file[2]
             image == Image_open_RGBA(image_bytes)
         IN  IF is_raise(image)
             THEN Load(None, None, <<"error: loading uploaded image">>, "")
             ELSE Load(image, image_bytes, <<>>, "")

\* requests.get(url).content for what the server does: the body of an image
\* carries the URL it was fetched from
Response(url, http) ==
    CASE http = "RequestException" -> Raise("RequestException")
      [] http = "empty" -> <<>>
      [] http = "html" -> <<"HTML", url, 0, 0>>
      [] http = "png" -> <<"PNG", url, 3, 4>>
      [] http = "jpeg_thin" -> <<"JPEG", url, 1, 2 * MAX_IMAGE_HEIGHT>>
      [] OTHER -> Raise("RequestException")

HttpOutcomes == {"RequestException", "empty", "html", "png", "jpeg_thin"}

\* line 149 as a plausible slip: a prefix match
sku_matches_prefix(stored, sku) ==
    Len(stored) >= Len(sku) /\ SubSeq(stored, 1, Len(sku)) = sku

\* sku_df["sku"] == sku, for one row
sku_matches(stored, sku) == stored = sku

load_image_from_sku(sku, sku_df, http) ==
    IF ~truthy(sku)
    THEN Load(None, None, <<"warning: enter a SKU">>, "")
    ELSE IF df_empty(sku_df) \/ ~has_column(sku_df, S_sku)
            \/ ~has_column(sku_df, S_image_url)
    THEN Load(None, None, <<"error: SKU data is not available">>, "")
    ELSE LET j == Positions(sku_df, S_sku)[1]
             match == SelectSeq(sku_df.rows, LAMBDA row : sku_matches(row[j], sku))
             urls == Positions(sku_df, S_image_url)
         IN  IF match = <<>>
             THEN Load(None, None, <<"error: No product image found">>, "")
             \* match["image_url"] is a frame when the label repeats, values[0]
             \* an array, and `pd.isna(array) or ...` raises
             ELSE IF Len(urls) > 1 THEN Load(None, None, <<>>, "ValueError")
             ELSE LET image_url == match[1][urls[1]]
                  IN  IF isna(image_url) \/ strip(str(image_url)) = <<>>
                      THEN Load(None, None, <<"error: No image URL is available">>, "")
                      ELSE LET image_url_str == strip(str(image_url))
                               image_bytes == Response(image_url_str, http)
                           IN  IF is_raise(image_bytes)
                               THEN Load(None, None, <<"error: Could not load image">>, "")
                               ELSE IF is_raise(Image_open_RGBA(image_bytes))
                               THEN Load(None, None, <<"error: unexpected error">>, "")
                               ELSE Load(Image_open_RGBA(image_bytes), image_bytes,
                                         <<>>, "")

\* rembg.remove(image_bytes) for what the library does
Remove(image_bytes, rembg) ==
    CASE rembg = "raises" -> Raise("RuntimeError")
      [] rembg = "garbage" -> <<>>
      [] rembg = "png" -> <<"PNG", <<"removed_bg">> \o image_bytes[2],
                            image_bytes[3], image_bytes[4]>>
      [] OTHER -> Raise("RuntimeError")

RembgOutcomes == {"raises", "garbage", "png"}

\* returns (processed image or None, messages)
process_background_removal(image_bytes, rembg) ==
    IF ~truthy(image_bytes)
    THEN Load(None, None, <<"error: No image data was provided">>, "")
    ELSE LET removed_bg_bytes == Remove(image_bytes, rembg)
         IN  IF is_raise(removed_bg_bytes)
                \/ is_raise(Image_open_RGBA(removed_bg_bytes))
             THEN Load(None, None, <<"error: Background removal failed">>, "")
             ELSE Load(Image_open_RGBA(removed_bg_bytes), removed_bg_bytes, <<>>, "")

(***************************************************************************)
(* Download links.  A file name is a str, written in chunks.               *)
(***************************************************************************)
\* image.save(buffer, format=...): the encoded bytes of the image
Image_save(image, format) == <<format, image[2], image[3], image[4]>>

\* lines 332-333: the image pasted on a white RGB canvas of its size, with
\* its own alpha as the mask
paste_on_white(image) == <<"RGB", image[2], image[3], image[4]>>

\* the <a href='data:{mime};base64,{b64}' download='{filename}'> anchor
Anchor(mime, data, filename, link_text) ==
    [ mime |-> mime, data |-> data, download |-> filename,
      link_text |-> link_text ]

generate_download_link(image, filename, link_text, mime_type) ==
    LET image_format == IF mime_type = "image/png" THEN "PNG" ELSE "JPEG"
    IN  Anchor(mime_type, Image_save(image, image_format), filename, link_text)

\* current_display_sku or 'image'
sku_or_image(current_display_sku) ==
    IF truthy(current_display_sku) THEN current_display_sku ELSE <<"image">>

\* lines 302-309
original_link(st) ==
    LET current_display_sku == st.ss.current_sku
        download_filename_original ==
            <<"original_">> \o sku_or_image(current_display_sku) \o <<".png">>
    IN  generate_download_link(
            st.ss.current_image, download_filename_original,
            <<"Download Original (">> \o sku_or_image(current_display_sku)
                \o <<")">>,
            "image/png")

\* lines 327-351 as a plausible slip: the export choice is ignored and the
\* result is always offered as PNG
processed_link_always_png(st, processed_image) ==
    Anchor("image/png", Image_save(processed_image, "PNG"),
           <<"removed_bg_">> \o sku_or_image(st.ss.current_sku) \o <<".">>
               \o <<"png">>,
           <<"Download Result (">> \o sku_or_image(st.ss.current_sku)
               \o <<")">>)

\* lines 327-351
processed_link(st, processed_image) ==
    LET current_display_sku == st.ss.current_sku
        is_jpeg == st.export_format_choice = EXPORT_FORMAT_JPEG
        file_extension == IF is_jpeg THEN <<"jpg">> ELSE <<"png">>
        mime == IF is_jpeg THEN "image/jpeg" ELSE "image/png"
        image_data_for_download ==
            IF is_jpeg THEN Image_save(paste_on_white(processed_image), "JPEG")
            ELSE Image_save(processed_image, "PNG")
        download_filename_processed ==
            <<"removed_bg_">> \o sku_or_image(current_display_sku) \o <<".">>
                \o file_extension
    IN  Anchor(mime, image_data_for_download, download_filename_processed,
               <<"Download Result (">> \o sku_or_image(current_display_sku)
                   \o <<")">>)

(***************************************************************************)
(* main(), section by section.  A section is skipped once an exception has *)
(* ended the run.                                                          *)
(***************************************************************************)
\* lines 263-266 as a plausible slip: the image is cleared whatever its
\* source
sync_sku_input_text_clears_any(st, sku_input_widget_value) ==
    LET s1 == [st EXCEPT !.ss.sku_input_text = sku_input_widget_value]
    IN  IF s1.ss.current_image # None
        THEN clear_session_image_data(s1)
        ELSE s1

\* the on_change callback of the SKU text field; Streamlit runs it before
\* the script, with the widget's new text
sync_sku_input_text(st, sku_input_widget_value) ==
    LET s1 == [st EXCEPT !.ss.sku_input_text = sku_input_widget_value]
    IN  IF s1.ss.current_image # None /\ s1.ss.current_sku = None
        THEN clear_session_image_data(s1)
        ELSE s1

\* lines 230-241; loaded is the entry of st.cache_data for load_sku_data,
\* whose messages Streamlit replays in every run
catalog_section(st, read_csv, sku_data) ==
    LET s1 == [st EXCEPT !.messages = @ \o sku_data.errors]
    IN  IF read_csv.raises = "FileNotFoundError"
        THEN emit(s1, "info: SKU data file not found")
        ELSE IF df_empty(sku_data.df)
        THEN emit(s1, "warning: SKU data could not be loaded or is empty")
        ELSE s1

\* lines 254-259 as a plausible slip: the file in the uploader is loaded in
\* every run, whatever id was recorded
upload_section_every_run(st, uploaded_file) ==
    IF uploaded_file # None
    THEN LET s1 == [st EXCEPT !.ss.last_uploaded_file_id = uploaded_file[1]]
             got == load_image_from_upload(uploaded_file)
             s2 == [s1 EXCEPT !.messages = @ \o got.messages]
         IN  IF got.image # None /\ truthy(got.image_bytes)
             THEN update_session_data(s2, got.image, got.image_bytes, None)
             ELSE s2
    ELSE st

\* lines 254-259
upload_section(st, uploaded_file) ==
    IF uploaded_file # None /\ uploaded_file[1] # st.ss.last_uploaded_file_id
    THEN LET s1 == [st EXCEPT !.ss.last_uploaded_file_id = uploaded_file[1]]
             got == load_image_from_upload(uploaded_file)
             s2 == [s1 EXCEPT !.messages = @ \o got.messages]
         IN  IF got.image # None /\ truthy(got.image_bytes)
             THEN update_session_data(s2, got.image, got.image_bytes, None)
             ELSE s2
    ELSE st

\* lines 272-280
sku_section(st, load_sku_btn, sku_df, http) ==
    IF st.exception # "" \/ ~load_sku_btn THEN st
    ELSE LET sku_to_load == strip(st.ss.sku_input_text)
         IN  IF truthy(sku_to_load)
             THEN LET s1 == clear_session_image_data(st)
                      got == load_image_from_sku(sku_to_load, sku_df, http)
                      s2 == [s1 EXCEPT !.messages = @ \o got.messages,
                                       !.exception = got.exception]
                  IN  IF got.exception = "" /\ got.image # None
                         /\ truthy(got.image_bytes)
                      THEN update_session_data(s2, got.image, got.image_bytes,
                                               sku_to_load)
                      ELSE s2
             ELSE emit(st, "warning: enter a SKU")

\* lines 318-353 as a plausible slip: the result of rembg is stored in the
\* session before it is decoded
remove_section_stores_result(st, rembg) ==
    LET current_display_image_bytes == st.ss.current_image_bytes
    IN  IF truthy(current_display_image_bytes)
        THEN LET got == process_background_removal(current_display_image_bytes,
                                                   rembg)
                 s1 == [st EXCEPT !.messages = @ \o got.messages,
                                  !.ss.current_image_bytes = got.image_bytes]
             IN  IF got.image # None
                 THEN emit([s1 EXCEPT !.processed_image = got.image],
                           "success: Background removal successful")
                 ELSE s1
        ELSE emit(st, "error: No image data found")

\* lines 318-353, the handler of the remove button
remove_section(st, rembg) ==
    LET current_display_image_bytes == st.ss.current_image_bytes
    IN  IF truthy(current_display_image_bytes)
        THEN LET got == process_background_removal(current_display_image_bytes,
                                                   rembg)
                 s1 == [st EXCEPT !.messages = @ \o got.messages]
             IN  IF got.image # None
                 THEN IF is_raise(resize_image(got.image, MAX_IMAGE_HEIGHT))
                      THEN [s1 EXCEPT !.exception = "ValueError"]
                      ELSE emit([s1 EXCEPT !.processed_image = got.image,
                                           !.links = Append(
                                               @, processed_link(s1, got.image))],
                                "success: Background removal successful")
                 ELSE s1
        ELSE emit(st, "error: No image data found")

\* lines 284-356
display_section(st, remove_bg_btn, rembg) ==
    IF st.exception # "" THEN st
    ELSE IF st.ss.current_image # None
    THEN IF is_raise(resize_image(st.ss.current_image, MAX_IMAGE_HEIGHT))
         THEN [st EXCEPT !.exception = "ValueError"]
         ELSE LET s1 == [st EXCEPT !.links = Append(@, original_link(st))]
              IN  IF remove_bg_btn THEN remove_section(s1, rembg) ELSE s1
    ELSE emit(st, "info: Welcome")

main(st, read_csv, sku_data, uploaded_file, load_sku_btn, remove_bg_btn, http, rembg) ==
    LET s1 == catalog_section(st, read_csv, sku_data)
        s2 == upload_section(s1, uploaded_file)
        s3 == sku_section(s2, load_sku_btn, sku_data.df, http)
    IN  display_section(s3, remove_bg_btn, rembg)

(***************************************************************************)
(* State.                                                                  *)
(***************************************************************************)
VARIABLES
    csv_file,              \* what pd.read_csv does with SKU_CSV_FILENAME
    session_state,         \* st.session_state: the keys main() initialises
    uploader,              \* the file in the uploader widget, or None
    sku_input_widget_key,  \* the text in the SKU text field
    load_sku_btn,          \* the run was started by the SKU load button
    remove_bg_btn,         \* the run was started by the remove button
    messages,              \* the messages of the last run
    calls,                 \* the session mutators the last run called
    exception,             \* the exception that ended the last run, or ""
    processed_image,       \* the processed image the last run displayed
    export_format,         \* the value of the export format radio
    links,                 \* the download links the last run rendered
    upload_count,          \* the files uploaded so far (they number the ids)
    requests_get,          \* what the image server did in the last run, or "none"
    rembg_remove,          \* what rembg.remove did in the last run, or "none"
    loaded,                \* <<>>, or <<load_sku_data(csv_file)>>: the st.cache_data entry
    resize_in,             \* <<image, max_height>>, the arguments of resize_image
    resized                \* <<>>, or <<the result of resize_image>>

vars ==
    << csv_file, session_state, uploader, sku_input_widget_key, load_sku_btn,
       remove_bg_btn, messages, calls, exception, processed_image, upload_count,
       requests_get, rembg_remove, loaded, resize_in, resized, export_format,
       links >>

session_vars ==
    << session_state, uploader, sku_input_widget_key, load_sku_btn,
       remove_bg_btn, messages, calls, exception, processed_image, upload_count,
       requests_get, rembg_remove, export_format, links >>

(***************************************************************************)
(* The inputs of the session: the catalog files, the texts a user types,   *)
(* the files a user uploads.                                               *)
(***************************************************************************)
URL_A == <<"http://x/a.png">>
URL_B == <<"http://x/b.png">>

CatalogGood ==
    ReadCsv("", DataFrame(
        << <<" ", "S", "K", "U", " ">>, <<"B", "i", "l", "d">>,
           FALLBACK_BACKGROUND_URL_COLUMN >>,
        << << <<" ", "1", "2", "3", " ">>, <<" ">> \o URL_A \o <<" ">>, URL_B >>,
           << <<"a", "b", "c">>, NaN, NaN >>,
           << <<"7", "8", "9">>, <<" ">>, <<" ">> >> >>))

CatalogNoSku ==
    ReadCsv("", DataFrame(<< <<"B", "i", "l", "d">> >>, << <<URL_A>> >>))

CatalogTwoImageColumns ==
    ReadCsv("", DataFrame(
        << S_sku, <<"B", "i", "l", "d">>, FALLBACK_IMAGE_URL_COLUMN >>,
        << << <<"1", "2", "3">>, URL_A, URL_B >> >>))

CatalogMissing == ReadCsv("FileNotFoundError", DataFrame(<<>>, <<>>))

SessionCatalogs ==
    {CatalogGood, CatalogNoSku, CatalogTwoImageColumns, CatalogMissing}

SkuTexts ==
    { <<>>, <<"1", "2", "3">>, <<"1", "2", "3", " ">>, <<"1", "2", "3", "4">>,
      <<"1", "2">>, <<"a", "b", "c">>, <<"A", "B", "C">>, <<"7", "8", "9">> }

UploadPayloads ==
    { <<"PNG", <<"photo">>, 3, 4>>,
      <<"JPEG", <<"thin">>, 1, 2 * MAX_IMAGE_HEIGHT>>,
      <<"TXT", <<"notes">>, 0, 0>>,
      <<>> }

\* uploaded_file.id: Streamlit numbers the files of a session as they are
\* uploaded (the attribute of the releases that name it id)
FileId(n) == <<"file", n>>

(***************************************************************************)
(* One script run: the pending on_change callback, then main().  The text  *)
(* field is rendered with value=sku_input_text: depending on the Streamlit *)
(* version it keeps the user's text or is reset to that value.             *)
(***************************************************************************)
\* line 313 is reached: the preview was drawn
export_format_rendered(st) ==
    /\ st.ss.current_image # None
    /\ ~is_raise(resize_image(st.ss.current_image, MAX_IMAGE_HEIGHT))

Run(uploaded_file, edited, text, load, remove, http, rembg, choice) ==
    LET s0 == [RunStart(session_state) EXCEPT !.export_format_choice = choice]
        s1 == IF edited THEN sync_sku_input_text(s0, text) ELSE s0
        s2 == main(s1, csv_file, loaded[1], uploaded_file, load, remove, http,
                   rembg)
    IN  /\ session_state' = s2.ss
        /\ messages' = s2.messages
        /\ calls' = s2.calls
        /\ exception' = s2.exception
        /\ processed_image' = s2.processed_image
        /\ links' = s2.links
        \* Streamlit drops the state of a widget that a run did not render;
        \* the radio then starts again at its first option
        /\ export_format' = IF export_format_rendered(s2) THEN choice
                             ELSE EXPORT_FORMAT_PNG
        /\ uploader' = uploaded_file
        /\ load_sku_btn' = load
        /\ remove_bg_btn' = remove
        /\ requests_get' = http
        /\ rembg_remove' = rembg
        /\ UNCHANGED <<csv_file, loaded, resize_in, resized>>
        /\ \E keeps_text \in BOOLEAN :
              sku_input_widget_key' =
                  IF keeps_text
                  THEN (IF edited THEN text ELSE sku_input_widget_key)
                  ELSE s2.ss.sku_input_text

\* the remove button exists when the last run drew the preview
remove_bg_btn_rendered ==
    session_state.current_image # None /\ exception = ""

\* the first run of the script, in a fresh session
FirstRun(read_csv) ==
    main(RunStart(initialize_session_state), read_csv, load_sku_data(read_csv),
         None, FALSE, FALSE, "none", "none")

Init ==
    /\ csv_file \in SessionCatalogs
    /\ session_state = FirstRun(csv_file).ss
    /\ messages = FirstRun(csv_file).messages
    /\ calls = FirstRun(csv_file).calls
    /\ exception = FirstRun(csv_file).exception
    /\ processed_image = FirstRun(csv_file).processed_image
    /\ links = FirstRun(csv_file).links
    /\ export_format = EXPORT_FORMAT_PNG
    /\ uploader = None
    /\ sku_input_widget_key = <<>>
    /\ load_sku_btn = FALSE
    /\ remove_bg_btn = FALSE
    /\ upload_count = 0
    /\ requests_get = "none"
    /\ rembg_remove = "none"
    /\ loaded = <<load_sku_data(csv_file)>>
    /\ resize_in = << <<"RGBA", <<"photo">>, 1, 1>>, MAX_IMAGE_HEIGHT >>
    /\ resized = <<>>

\* the user puts a file into the uploader
UploadFile ==
    \E payload \in UploadPayloads :
        /\ upload_count < MaxUploads
        /\ upload_count' = upload_count + 1
        /\ Run(<<FileId(upload_count + 1), payload>>, FALSE, <<>>, FALSE, FALSE,
               "none", "none", export_format)

\* the user takes the file out of the uploader
ClearUploader ==
    /\ uploader # None
    /\ UNCHANGED upload_count
    /\ Run(None, FALSE, <<>>, FALSE, FALSE, "none", "none", export_format)

\* the user commits a new text in the SKU field
EditSkuText ==
    \E text \in SkuTexts :
        /\ text # sku_input_widget_key
        /\ UNCHANGED upload_count
        /\ Run(uploader, TRUE, text, FALSE, FALSE, "none", "none", export_format)

\* the user presses "Load image by SKU", with or without an uncommitted edit
PressLoadSku ==
    \E edited \in BOOLEAN, text \in SkuTexts, http \in HttpOutcomes :
        /\ edited = (text # sku_input_widget_key)
        /\ UNCHANGED upload_count
        /\ Run(uploader, edited, text, TRUE, FALSE, http, "none", export_format)

\* the user presses "Remove Background", with or without an uncommitted edit
PressRemoveBackground ==
    \E edited \in BOOLEAN, text \in SkuTexts, rembg \in RembgOutcomes :
        /\ remove_bg_btn_rendered
        /\ edited = (text # sku_input_widget_key)
        /\ UNCHANGED upload_count
        /\ Run(uploader, edited, text, FALSE, TRUE, "none", rembg, export_format)

\* the user picks the other export format, with or without an uncommitted
\* edit of the SKU text
ChooseExportFormat ==
    \E edited \in BOOLEAN, text \in SkuTexts,
       choice \in {EXPORT_FORMAT_PNG, EXPORT_FORMAT_JPEG} :
        /\ remove_bg_btn_rendered
        /\ choice # export_format
        /\ edited = (text # sku_input_widget_key)
        /\ UNCHANGED upload_count
        /\ Run(uploader, edited, text, FALSE, FALSE, "none", "none", choice)

Next ==
    \/ UploadFile
    \/ ClearUploader
    \/ EditSkuText
    \/ PressLoadSku
    \/ PressRemoveBackground
    \/ ChooseExportFormat

Spec == Init /\ [][Next]_vars

(***************************************************************************)
(* The catalog loader alone, on every read_csv outcome within the bounds.  *)
(***************************************************************************)
InitCatalog ==
    /\ csv_file \in ReadCsvOutcomes
    /\ loaded = <<>>
    /\ session_state = initialize_session_state
    /\ messages = <<>>
    /\ calls = <<>>
    /\ exception = ""
    /\ processed_image = None
    /\ links = <<>>
    /\ export_format = EXPORT_FORMAT_PNG
    /\ uploader = None
    /\ sku_input_widget_key = <<>>
    /\ load_sku_btn = FALSE
    /\ remove_bg_btn = FALSE
    /\ upload_count = 0
    /\ requests_get = "none"
    /\ rembg_remove = "none"
    /\ resize_in = << <<"RGBA", <<"photo">>, 1, 1>>, MAX_IMAGE_HEIGHT >>
    /\ resized = <<>>

LoadSkuData ==
    /\ loaded = <<>>
    /\ loaded' = <<load_sku_data(csv_file)>>
    /\ UNCHANGED <<csv_file, session_vars, resize_in, resized>>

NextCatalog == LoadSkuData

SpecCatalog == InitCatalog /\ [][NextCatalog]_vars

(***************************************************************************)
(* resize_image alone, on every image size within the bounds.              *)
(***************************************************************************)
InitResize ==
    /\ resize_in \in
           { << <<"RGBA", <<"photo">>, w, h>>, m >> :
               w \in Widths, h \in Heights, m \in MaxHeights }
    /\ resized = <<>>
    /\ csv_file = CatalogMissing
    /\ loaded = <<>>
    /\ session_state = initialize_session_state
    /\ messages = <<>>
    /\ calls = <<>>
    /\ exception = ""
    /\ processed_image = None
    /\ links = <<>>
    /\ export_format = EXPORT_FORMAT_PNG
    /\ uploader = None
    /\ sku_input_widget_key = <<>>
    /\ load_sku_btn = FALSE
    /\ remove_bg_btn = FALSE
    /\ upload_count = 0
    /\ requests_get = "none"
    /\ rembg_remove = "none"

ResizeImage ==
    /\ resized = <<>>
    /\ resized' = <<resize_image(resize_in[1], resize_in[2])>>
    /\ UNCHANGED <<csv_file, session_vars, loaded, resize_in>>

NextResize == ResizeImage

SpecResize == InitResize /\ [][NextResize]_vars

(***************************************************************************)
(* Properties.                                                             *)
(***************************************************************************)
Has(seq, x) == \E i \in DOMAIN seq : seq[i] = x
HasAny(seq, S) == \E i \in DOMAIN seq : seq[i] \in S

Cleared ==
    /\ session_state.current_image = None
    /\ session_state.current_image_bytes = None
    /\ session_state.current_sku = None

LoadFailureMessages ==
    { "error: loading uploaded image", "error: SKU data is not available",
      "error: No product image found", "error: No image URL is available",
      "error: Could not load image", "error: unexpected error" }

RemovalFailureMessages ==
    { "error: No image data was provided", "error: Background removal failed",
      "error: No image data found" }

\* the SKU the last run asked for: the text field's value, trimmed
RequestedSku == strip(session_state.sku_input_text)

\* the catalog as the session sees it
SkuFrame == loaded[1].df
SkuRows(sku) ==
    { r \in DOMAIN SkuFrame.rows :
        SkuFrame.rows[r][Positions(SkuFrame, S_sku)[1]] = sku }

\* C1 (as claimed): after a run in which a load failed - the upload could not
\* be decoded, the SKU was unknown, its URL blank, the fetch or the decode
\* failed - the session holds no image, no bytes and no SKU.
C1_ClearedAfterFailedLoad ==
    HasAny(messages, LoadFailureMessages) => Cleared

\* C2: current_sku is set only while the current image is the one fetched
\* from the catalog URL of that SKU, and a run that commits an upload leaves
\* current_sku absent.
C2_SkuOnlyFromCatalog ==
    /\ session_state.current_sku # None =>
          /\ session_state.current_image # None
          /\ \E r \in SkuRows(session_state.current_sku) :
                session_state.current_image_bytes[2] =
                    strip(str(SkuFrame.rows[r][Positions(SkuFrame, S_image_url)[1]]))
    /\ (~load_sku_btn /\ Has(calls, "update_session_data")) =>
          session_state.current_sku = None

\* C2 witness: an image loaded by SKU while an uploaded file is still in the
\* uploader
C2_Witness ==
    /\ session_state.current_sku = <<"1", "2", "3">>
    /\ uploader # None
    /\ uploader[1] = session_state.last_uploaded_file_id

\* C3: the image is present exactly when the bytes are, it is the decoding of
\* those bytes, and a SKU is present only with an image.
C3_FieldsTogether ==
    /\ (session_state.current_image = None)
           <=> (session_state.current_image_bytes = None)
    /\ session_state.current_sku # None => session_state.current_image # None
    /\ session_state.current_image # None =>
           session_state.current_image
               = Image_open_RGBA(session_state.current_image_bytes)

\* C3 witness: a second load has replaced an earlier image
C3_Witness ==
    /\ session_state.current_image # None
    /\ session_state.current_sku = None
    /\ upload_count = 2
    /\ Has(calls, "update_session_data")

\* C4: a background removal that fails (rembg raises, or its result cannot
\* be decoded, or the payload is empty or absent) reports an error, yields
\* no processed image and leaves the three session fields as they were.
C4_FailedRemovalLeavesSession ==
    [][ /\ ( /\ remove_bg_btn'
             /\ rembg_remove' \in {"raises", "garbage"}
             /\ session_state.current_image # None
             /\ ~Has(calls', "clear_session_image_data") )
           => /\ HasAny(messages', RemovalFailureMessages)
              /\ processed_image' = None
              /\ session_state'.current_image = session_state.current_image
              /\ session_state'.current_image_bytes
                     = session_state.current_image_bytes
              /\ session_state'.current_sku = session_state.current_sku
        /\ \A b \in {None, <<>>}, r \in RembgOutcomes :
              /\ process_background_removal(b, r).image = None
              /\ Len(process_background_removal(b, r).messages) = 1
      ]_vars

\* C4 witness: a removal failed on a loaded image
C4_Witness ==
    /\ remove_bg_btn
    /\ rembg_remove \in {"raises", "garbage"}
    /\ Has(messages, "error: Background removal failed")
    /\ session_state.current_image # None
    /\ processed_image = None

\* the image URLs the catalog holds for a SKU, trimmed; missing and blank
\* cells left out
SkuUrls(sku) ==
    LET cells == { SkuFrame.rows[r][u] :
                     r \in SkuRows(sku),
                     u \in { Positions(SkuFrame, S_image_url)[k] :
                               k \in DOMAIN Positions(SkuFrame, S_image_url) } }
    IN  { strip(c) : c \in { x \in cells : ~isna(x) } } \ { <<>> }

\* C5 (as claimed): after a SKU load request with a non-empty SKU, if the
\* catalog has a row for the SKU with a non-blank image URL and the fetch and
\* the decoding succeed, the session holds that image, its bytes and the
\* requested SKU; if no row matches, the run reports "no image found" and the
\* session is cleared.
C5_SkuLoadOutcome ==
    (load_sku_btn /\ truthy(RequestedSku)) =>
        /\ \A url \in SkuUrls(RequestedSku) :
              ~is_raise(Response(url, requests_get))
              /\ ~is_raise(Image_open_RGBA(Response(url, requests_get)))
              => /\ session_state.current_image_bytes
                        = Response(url, requests_get)
                 /\ session_state.current_image
                        = Image_open_RGBA(Response(url, requests_get))
                 /\ session_state.current_sku = RequestedSku
        /\ SkuRows(RequestedSku) = {} =>
              /\ Has(messages, "error: No product image found")
              /\ Cleared

\* the SKU cells of the catalog file as read_csv returned them
StoredSkus ==
    LET df == clean_columns(csv_file.df)
    IN  { df.rows[r][Positions(df, S_sku)[1]] : r \in DOMAIN df.rows }

\* C6: with a catalog that loaded, a SKU load request finds no row exactly
\* when no stored SKU, trimmed, equals the entered text, trimmed: equality of
\* the whole strings, case kept.
C6_ExactTrimmedMatch ==
    (load_sku_btn /\ truthy(RequestedSku) /\ ~df_empty(SkuFrame)) =>
        ( Has(messages, "error: No product image found")
          <=> ~\E stored \in StoredSkus : strip(str(stored)) = RequestedSku )

\* C6 witness: the entered "123 " found the row stored as " 123 "
C6_Witness ==
    /\ load_sku_btn
    /\ sku_input_widget_key = <<"1", "2", "3", " ">>
    /\ session_state.current_sku = <<"1", "2", "3">>
    /\ <<" ", "1", "2", "3", " ">> \in StoredSkus

\* the labels of the file's columns, trimmed and lower-cased
CleanLabels == { lower(strip(csv_file.df.columns[i])) : i \in DOMAIN csv_file.df.columns }

\* the catalog load fails: read_csv raises, no column is labelled sku, or the
\* body raises because two are
CatalogLoadFails ==
    \/ csv_file.raises # ""
    \/ Len(Positions(clean_columns(csv_file.df), S_sku)) # 1

\* C7: a catalog load that fails returns the empty table with the columns
\* sku, image_url, background_image_url, emits exactly one error and raises
\* nothing.
C7_FailedLoadIsEmptyWithOneError ==
    (loaded # <<>> /\ CatalogLoadFails) =>
        /\ loaded[1].raised = ""
        /\ loaded[1].df = EmptyExpectedFrame
        /\ Len(loaded[1].errors) = 1

\* C7 witness: read_csv raised something other than FileNotFoundError
C7_Witness ==
    /\ loaded # <<>>
    /\ csv_file.raises = "ParserError"
    /\ loaded[1].errors = <<"error: occurred while loading">>

\* the column of the file under label c (trimmed, lower-cased): the cells of
\* the first such column, row by row
FileColumn(c) ==
    LET df == clean_columns(csv_file.df)
    IN  [r \in DOMAIN df.rows |-> df.rows[r][Positions(df, c)[1]]]

LoadedColumn(k) ==
    [r \in DOMAIN loaded[1].df.rows |-> loaded[1].df.rows[r][k]]

\* C8 (as claimed): a catalog whose cleaned header has sku and a fallback
\* label without its canonical label is loaded with the fallback column's
\* values under the canonical label; the result has exactly the three
\* expected columns; a canonical column that is present is kept.
C8_FallbackColumns ==
    (loaded # <<>> /\ csv_file.raises = "" /\ S_sku \in CleanLabels) =>
        /\ loaded[1].df.columns = DEFAULT_EXPECTED_COLUMNS
        /\ (FALLBACK_IMAGE_URL_COLUMN \in CleanLabels
            /\ S_image_url \notin CleanLabels)
              => LoadedColumn(2) = FileColumn(FALLBACK_IMAGE_URL_COLUMN)
        /\ (FALLBACK_BACKGROUND_URL_COLUMN \in CleanLabels
            /\ S_background_image_url \notin CleanLabels)
              => LoadedColumn(3) = FileColumn(FALLBACK_BACKGROUND_URL_COLUMN)
        /\ S_image_url \in CleanLabels
              => LoadedColumn(2) = FileColumn(S_image_url)
        /\ S_background_image_url \in CleanLabels
              => LoadedColumn(3) = FileColumn(S_background_image_url)

\* C9 (as claimed): resize_image returns an image of the same size when the
\* height is at most max_height, and otherwise an image of height max_height
\* and width floor(width * max_height / height).
C9_PreviewScaling ==
    resized # <<>> =>
        LET image == resize_in[1]
            max_height == resize_in[2]
            result == resized[1]
        IN  /\ ~is_raise(result)
            /\ IF image_height(image) <= max_height
               THEN /\ image_width(result) = image_width(image)
                    /\ image_height(result) = image_height(image)
               ELSE /\ image_height(result) = max_height
                    /\ image_width(result)
                          = (image_width(image) * max_height)
                                \div image_height(image)

\* the run began a load: a new file in the uploader, or the SKU load button
LoadAttempted ==
    \/ load_sku_btn'
    \/ (uploader' # None /\ uploader'[1] # session_state.last_uploaded_file_id)

\* the position of the first call of f in the run's calls, 0 when there is none
FirstCall(cs, f) ==
    IF Has(cs, f) THEN CHOOSE i \in DOMAIN cs :
                           cs[i] = f /\ \A j \in 1..(i - 1) : cs[j] # f
    ELSE 0

\* C10 (as claimed): a processed image comes only from a successful removal
\* on the current image's bytes; a run that begins a load shows no processed
\* image; and a load that replaces a current image clears the session first
\* (Loaded -> Empty -> Loaded).
C10_EmptyLoadedProcessed ==
    [][ /\ processed_image' # None =>
              /\ remove_bg_btn'
              /\ truthy(session_state'.current_image_bytes)
              /\ processed_image' = Image_open_RGBA(
                     Remove(session_state'.current_image_bytes, "png"))
        /\ LoadAttempted => processed_image' = None
        /\ ( /\ LoadAttempted
             /\ session_state.current_image # None
             /\ Has(calls', "update_session_data") )
           => /\ Has(calls', "clear_session_image_data")
              /\ FirstCall(calls', "clear_session_image_data")
                     < FirstCall(calls', "update_session_data")
      ]_vars

\* the part of a download file name that names the image: the SKU of the
\* current image, or the word image
NamePart ==
    IF session_state.current_sku = None THEN <<"image">>
    ELSE session_state.current_sku

\* C11: the run that draws the preview offers the original as image/png
\* under original_<sku-or-image>.png; a run offers a processed image exactly
\* when it produced one, as image/png with extension png for the PNG choice
\* and as image/jpeg with extension jpg for the JPEG choice, under
\* removed_bg_<sku-or-image>.<ext>; the SKU in the names is the current one,
\* the SKU whose catalog URL the current image was fetched from.
C11_DownloadArtifact ==
    /\ links # <<>> <=> (session_state.current_image # None /\ exception = "")
    /\ Len(links) <= 2
    /\ Len(links) = 2 <=> processed_image # None
    /\ links # <<>> =>
          /\ links[1].mime = "image/png"
          /\ links[1].data[1] = "PNG"
          /\ links[1].download = <<"original_">> \o NamePart \o <<".png">>
    /\ Len(links) = 2 =>
          /\ export_format = EXPORT_FORMAT_PNG =>
                /\ links[2].mime = "image/png"
                /\ links[2].data[1] = "PNG"
                /\ links[2].download
                       = <<"removed_bg_">> \o NamePart \o <<".">> \o <<"png">>
          /\ export_format = EXPORT_FORMAT_JPEG =>
                /\ links[2].mime = "image/jpeg"
                /\ links[2].data[1] = "JPEG"
                /\ links[2].download
                       = <<"removed_bg_">> \o NamePart \o <<".">> \o <<"jpg">>
    /\ (links # <<>> /\ session_state.current_sku # None) =>
          \E r \in SkuRows(session_state.current_sku) :
              session_state.current_image_bytes[2] =
                  strip(str(SkuFrame.rows[r][Positions(SkuFrame, S_image_url)[1]]))

\* C11 witness: the JPEG export of the processed image of SKU 123
C11_Witness ==
    /\ Len(links) = 2
    /\ export_format = EXPORT_FORMAT_JPEG
    /\ links[2].download = <<"removed_bg_", "1", "2", "3", ".", "jpg">>
    /\ links[2].mime = "image/jpeg"

\* the step put a new file into the uploader
UploadStep == upload_count' = upload_count + 1

\* the step was a SKU load whose row, fetch and decoding were good
SkuLoadSucceeded ==
    /\ load_sku_btn'
    /\ Has(calls', "update_session_data")

\* C12 (as claimed): in every reachable state, whatever failed before, the
\* session accepts an upload and a SKU load, and a background removal when
\* an image is current; and a load that succeeds leaves the session holding
\* the newly loaded image.
C12_NoTerminalState ==
    [][ /\ upload_count < MaxUploads => ENABLED UploadFile
        /\ ENABLED PressLoadSku
        /\ session_state.current_image # None => ENABLED PressRemoveBackground
        /\ (UploadStep /\ ~is_raise(Image_open_RGBA(uploader'[2]))) =>
              /\ session_state'.current_image = Image_open_RGBA(uploader'[2])
              /\ session_state'.current_image_bytes = uploader'[2]
        /\ SkuLoadSucceeded =>
              /\ session_state'.current_image
                     = Image_open_RGBA(session_state'.current_image_bytes)
              /\ session_state'.current_image_bytes[1] \in {"PNG", "JPEG"}
              /\ session_state'.current_sku
                     = strip(session_state'.sku_input_text)
      ]_vars

\* the step left the same file in the uploader
SameFileStays == uploader # None /\ uploader' = uploader

\* C13: a run commits the uploaded file only when its id differs from the
\* recorded one, and every run with a file in the uploader leaves its id
\* recorded, decoded or not; so a run that finds the same file again does
\* not load it: no upload is committed, no upload error is reported again,
\* and unless the SKU button loads something the current image stays what
\* it was or is cleared - the file neither overwrites a SKU image nor comes
\* back after a clear.
C13_UploadLoadedOnce ==
    [][ /\ (~load_sku_btn' /\ Has(calls', "update_session_data")) =>
              /\ uploader' # None
              /\ uploader'[1] # session_state.last_uploaded_file_id
              /\ session_state'.current_image_bytes = uploader'[2]
        /\ uploader' # None =>
              session_state'.last_uploaded_file_id = uploader'[1]
        /\ SameFileStays =>
              /\ ~Has(messages', "error: loading uploaded image")
              /\ Has(calls', "update_session_data") => load_sku_btn'
              /\ ~load_sku_btn' =>
                    /\ session_state'.current_image
                           \in {session_state.current_image, None}
                    /\ session_state'.current_sku
                           \in {session_state.current_sku, None}
              /\ session_state'.current_sku # None =>
                    session_state'.current_image_bytes # uploader[2]
      ]_vars

\* C13 witness: a later run found the file that had failed to decode still
\* in the uploader and did not try it again
C13_Witness ==
    /\ uploader # None
    /\ uploader[2] # <<>>
    /\ is_raise(Image_open_RGBA(uploader[2]))
    /\ session_state.last_uploaded_file_id = uploader[1]
    /\ load_sku_btn
    /\ ~Has(messages, "error: loading uploaded image")
    /\ session_state.current_sku = <<"1", "2", "3">>

\* an image is current and it has no SKU: it came from an upload
UploadSourced ==
    session_state.current_image # None /\ session_state.current_sku = None

\* the three image fields of ss are those of the session
ImageFieldsKept(ss) ==
    /\ ss.current_image = session_state.current_image
    /\ ss.current_image_bytes = session_state.current_image_bytes
    /\ ss.current_sku = session_state.current_sku

ImageFieldsCleared(ss) ==
    /\ ss.current_image = None
    /\ ss.current_image_bytes = None
    /\ ss.current_sku = None

\* the step ran the callback with a new text and pressed no button
EditOnlyStep ==
    /\ ~load_sku_btn'
    /\ ~remove_bg_btn'
    /\ uploader' = uploader
    /\ session_state'.sku_input_text # session_state.sku_input_text

\* C14: in every reachable session, sync_sku_input_text copies the widget
\* text into sku_input_text, clears image, bytes and SKU when an image is
\* current without a SKU, and otherwise leaves the three fields as they
\* are; and the run of an edit ends with the session in that state.
C14_SyncSkuInputText ==
    [][ /\ \A text \in SkuTexts :
              LET after == sync_sku_input_text(RunStart(session_state), text).ss
              IN  /\ after.sku_input_text = text
                  /\ after.last_uploaded_file_id
                         = session_state.last_uploaded_file_id
                  /\ IF UploadSourced THEN ImageFieldsCleared(after)
                     ELSE ImageFieldsKept(after)
        /\ EditOnlyStep =>
              /\ session_state'.sku_input_text \in SkuTexts
              /\ IF UploadSourced THEN ImageFieldsCleared(session_state')
                 ELSE ImageFieldsKept(session_state')
      ]_vars

\* C14 witness: an edit of the SKU text left the image loaded by SKU 123
\* in place
C14_Witness ==
    /\ session_state.current_sku = <<"1", "2", "3">>
    /\ session_state.current_image # None
    /\ session_state.sku_input_text = <<"a", "b", "c">>
    /\ ~load_sku_btn
    /\ calls = <<>>

=============================================================================
